---- MODULE Spec2Model ----
(***************************************************************************)
(* A model of the storage core of the commit log: the store (a buffered,  *)
(* length-prefixed append-only file), the index (fixed-width entries      *)
(* mapping a relative offset to a store position) and the segment that    *)
(* binds one store and one index under a base offset.                     *)
(*                                                                         *)
(* Bytes are integers 0..255 and files are sequences of bytes.  Errors    *)
(* are strings, "nil" meaning success.                                    *)
(***************************************************************************)
EXTENDS Integers, Sequences, FiniteSets, TLC

VARIABLES
    storeFile,   \* bytes of <baseOffset>.store on disk
    storeExists, \* whether the .store file exists
    indexFile,   \* bytes of <baseOffset>.index on disk (shared with the index's region)
    indexExists, \* whether the .index file exists
    st,          \* the store struct: buf, sticky buffer error, size, file handle closed
    ix,          \* the index struct: size, capacity of the region, closed
    seg,         \* the segment struct: baseOffset, nextOffset, config
    ret,         \* what the last operation was given and what it returned
    hist,        \* the appends that returned success, in call order
    handed,      \* every byte the store's Append handed to its buffer or file
    env,         \* what happened to this instance: I/O faults, use after close, calls
    mu,          \* the store mutex: 0 when free, else the thread holding it
    th           \* the threads of the concurrent specification

vars == <<storeFile, storeExists, indexFile, indexExists, st, ix, seg, ret, hist,
          handed, env, mu, th>>

----------------------------------------------------------------------------
(* Bounds of the model *)

\* operations per behaviour of the segment specification
MaxOps == 4
\* operations per behaviour of the store specification
MaxStoreOps == 4
\* I/O faults injected per behaviour
MaxFaults == 1
\* length of the payload that does not fit the write buffer
BigLen == 4089
\* largest base offset a segment is opened at
MaxBase == 2

----------------------------------------------------------------------------
(* Program constants *)

\* store.go: number of bytes used to store the record's length
lenWidth == 8
\* bufio.NewWriter(f): the writer's buffer holds 4096 bytes
defaultBufSize == 4096
\* index entry: 4 bytes of relative offset, 8 bytes of position
offWidth == 4
posWidth == 8
entWidth == offWidth + posWidth

----------------------------------------------------------------------------
(* Sequences of bytes *)

Take(s, n) == SubSeq(s, 1, n)
Drop(s, n) == SubSeq(s, n + 1, Len(s))
Min(a, b) == IF a < b THEN a ELSE b
Max(a, b) == IF a > b THEN a ELSE b
Zeros(n) == [i \in 1..n |-> 0]

\* 256^k for the byte positions whose weight TLC's integers can hold
Pow256(k) == CASE k = 0 -> 1 [] k = 1 -> 256 [] k = 2 -> 65536 [] OTHER -> 16777216

\* enc.PutUintNN: n in w bytes, most significant byte first.  Every natural the
\* model handles is below 2^31, so the bytes of weight 256^4 and up are zero.
PutUint(n, w) ==
    [i \in 1..w |-> IF w - i > 3 THEN 0 ELSE (n \div Pow256(w - i)) % 256]

\* a big-endian field whose value exceeds what the model's integers hold
Huge(bs) ==
    \E i \in 1..Len(bs) :
        \/ Len(bs) - i > 3 /\ bs[i] # 0
        \/ Len(bs) - i = 3 /\ bs[i] >= 128

RECURSIVE UintFrom(_, _)
UintFrom(bs, acc) ==
    IF bs = <<>> THEN acc ELSE UintFrom(Tail(bs), acc * 256 + Head(bs))

\* enc.UintNN: the value of a big-endian field (of one that is not Huge)
Uint(bs) == UintFrom(SubSeq(bs, Max(1, Len(bs) - 3), Len(bs)), 0)

\* make([]byte, n) for the 8-byte length bs: on a 64-bit build it panics when
\* n is above the allocator's limit of 2^48 bytes
OverMaxAlloc(bs) ==
    bs[1] # 0 \/ bs[2] > 1 \/ (bs[2] = 1 /\ \E i \in 3..Len(bs) : bs[i] # 0)

\* len(b) for the read of a payload whose length field is bs: a length the
\* model's integers cannot hold is longer than any file of the model, and
\* stands as one byte more than the file has
BodyLen(bs, file) == IF Huge(bs) THEN Len(file) + 1 ELSE Uint(bs)

----------------------------------------------------------------------------
(* The file under the store: os.File opened O_RDWR|O_CREATE|O_APPEND *)

\* File.Write of data.  io is what the disk does with this write: "ok" takes it
\* all, "wfail" takes nothing, "wshort" takes the first half and then fails.
FileWrite(file, closed, data, io) ==
    IF closed THEN [file |-> file, n |-> 0, err |-> "ErrClosed"]
    ELSE IF io = "wfail" THEN [file |-> file, n |-> 0, err |-> "EIO"]
    ELSE IF io = "wshort"
        THEN [file |-> file \o Take(data, Len(data) \div 2),
              n |-> Len(data) \div 2, err |-> "ENOSPC"]
    ELSE [file |-> file \o data, n |-> Len(data), err |-> "nil"]

\* File.ReadAt(b, off) with len(b) = n: the bytes read and io.EOF when fewer
\* than n are there.  A negative offset is refused first; an empty b is never
\* passed to the system call, so it is "read" from a closed file too.
FileReadAt(file, closed, n, off) ==
    IF off < 0 THEN [data |-> <<>>, err |-> "ErrNegativeOffset"]
    ELSE IF n = 0 THEN [data |-> <<>>, err |-> "nil"]
    ELSE IF closed THEN [data |-> <<>>, err |-> "ErrClosed"]
    ELSE LET got == SubSeq(file, off + 1, Min(Len(file), off + n))
         IN  [data |-> got, err |-> IF Len(got) < n THEN "EOF" ELSE "nil"]

----------------------------------------------------------------------------
(* bufio.Writer: b is [buf, err], err sticky once a write to the file failed. *)
(* An operator that uses the result of a call more than once takes it as a   *)
(* parameter of the operator that continues the function.                    *)

Available(b) == defaultBufSize - Len(b.buf)

\* Writer.Flush, after the write of the buffer to the file returned w
Flushed(b, w) ==
    IF w.err # "nil"
    THEN [b |-> [buf |-> Drop(b.buf, w.n), err |-> w.err], file |-> w.file,
          err |-> w.err, wrote |-> TRUE]
    ELSE [b |-> [buf |-> <<>>, err |-> "nil"], file |-> w.file, err |-> "nil",
          wrote |-> TRUE]

\* Writer.Flush
Flush(b, file, closed, io) ==
    IF b.err # "nil" THEN [b |-> b, file |-> file, err |-> b.err, wrote |-> FALSE]
    ELSE IF Len(b.buf) = 0
    THEN [b |-> b, file |-> file, err |-> "nil", wrote |-> FALSE]
    ELSE Flushed(b, FileWrite(file, closed, b.buf, io))

\* Writer.Write(p): nn counts the bytes accepted so far; all of them were
\* handed to the buffer or to the file.  io is what the disk does with the
\* first write that reaches the file.
RECURSIVE BufWrite(_, _, _, _, _, _, _)

\* the loop's step for a large write into an empty buffer, the file.Write
\* of p having returned w
WriteDirect(b, closed, p, nn, w) ==
    BufWrite([b EXCEPT !.err = w.err], w.file, closed, Drop(p, w.n), "ok",
             nn + w.n, TRUE)

\* the loop's step that fills the buffer with n bytes and flushes: f
WriteFilled(closed, p, n, nn, f) ==
    BufWrite(f.b, f.file, closed, Drop(p, n), "ok", nn + n, TRUE)

BufWrite(b, file, closed, p, io, nn, wrote) ==
    IF Len(p) > Available(b) /\ b.err = "nil"
    THEN IF Len(b.buf) = 0
         THEN WriteDirect(b, closed, p, nn, FileWrite(file, closed, p, io))
         ELSE WriteFilled(closed, p, Available(b), nn,
                          Flush([b EXCEPT !.buf = b.buf \o Take(p, Available(b))],
                                file, closed, io))
    ELSE IF b.err # "nil"
         THEN [b |-> b, file |-> file, nn |-> nn, err |-> b.err, wrote |-> wrote]
    ELSE [b |-> [b EXCEPT !.buf = b.buf \o p], file |-> file,
          nn |-> nn + Len(p), err |-> "nil", wrote |-> wrote]

Write(b, file, closed, p, io) == BufWrite(b, file, closed, p, io, 0, FALSE)

----------------------------------------------------------------------------
(* store: s is [buf, err, size, closed] *)

Buf(s) == [buf |-> s.buf, err |-> s.err]
WithBuf(s, b) == [s EXCEPT !.buf = b.buf, !.err = b.err]

\* newStore(f): size is the file's current length
newStore(file) == [buf |-> <<>>, err |-> "nil", size |-> Len(file), closed |-> FALSE]

\* what store.Append returns; took is the number of bytes the writer accepted
AppendResult(s, file, n, pos, err, wrote, took) ==
    [s |-> s, file |-> file, n |-> n, pos |-> pos, err |-> err, wrote |-> wrote,
     took |-> took]

\* AppendPayload returning the position of the payload instead of the entry's
AppendPayload_PosAfterPrefix(s, w1, w2) ==
    IF w2.err # "nil"
    THEN AppendResult(WithBuf(s, w2.b), w2.file, 0, 0, w2.err,
                      w1.wrote \/ w2.wrote, w1.nn + w2.nn)
    ELSE AppendResult([WithBuf(s, w2.b) EXCEPT !.size = s.size + (w2.nn + lenWidth)],
                      w2.file, w2.nn + lenWidth, s.size + lenWidth, "nil",
                      w1.wrote \/ w2.wrote, w1.nn + w2.nn)

\* store.Append after s.buf.Write(p) returned w2: size grows only on success
AppendPayload(s, w1, w2) ==
    IF w2.err # "nil"
    THEN AppendResult(WithBuf(s, w2.b), w2.file, 0, 0, w2.err,
                      w1.wrote \/ w2.wrote, w1.nn + w2.nn)
    ELSE AppendResult([WithBuf(s, w2.b) EXCEPT !.size = s.size + (w2.nn + lenWidth)],
                      w2.file, w2.nn + lenWidth, s.size, "nil",
                      w1.wrote \/ w2.wrote, w1.nn + w2.nn)

\* store.Append after binary.Write of the length returned w1
AppendPrefix(s, p, io, w1) ==
    IF w1.err # "nil"
    THEN AppendResult(WithBuf(s, w1.b), w1.file, 0, 0, w1.err, w1.wrote, w1.nn)
    ELSE AppendPayload(s, w1, Write(w1.b, w1.file, s.closed, p,
                                    IF w1.wrote THEN "ok" ELSE io))

\* store.Append(p) under the lock
storeAppend(s, file, p, io) ==
    AppendPrefix(s, p, io,
                 Write(Buf(s), file, s.closed, PutUint(Len(p), lenWidth), io))

ReadResult(s, f, data, err) ==
    [s |-> WithBuf(s, f.b), file |-> f.file, data |-> data, err |-> err,
     wrote |-> f.wrote]

\* store.Read after the payload's ReadAt returned b
ReadBody(s, f, b) ==
    IF b.err # "nil" THEN ReadResult(s, f, <<>>, b.err)
    ELSE ReadResult(s, f, b.data, "nil")

\* store.Read after the length's ReadAt returned size
ReadSize(s, f, pos, size) ==
    IF size.err # "nil" THEN ReadResult(s, f, <<>>, size.err)
    ELSE IF OverMaxAlloc(size.data)
    THEN ReadResult(s, f, <<>>, "panic: makeslice")
    ELSE ReadBody(s, f, FileReadAt(f.file, s.closed, BodyLen(size.data, f.file),
                                   pos + lenWidth))

\* store.Read after the flush returned f
ReadFlushed(s, pos, f) ==
    IF f.err # "nil" THEN ReadResult(s, f, <<>>, f.err)
    ELSE ReadSize(s, f, pos, FileReadAt(f.file, s.closed, lenWidth, pos))

\* store.Read that reads the file without flushing the buffer first
storeRead_NoFlush(s, file, pos, io) ==
    ReadFlushed(s, pos, [b |-> Buf(s), file |-> file, err |-> "nil", wrote |-> FALSE])

\* store.Read(pos) under the lock
storeRead(s, file, pos, io) ==
    ReadFlushed(s, pos, Flush(Buf(s), file, s.closed, io))

ReadAtBytes(s, f, r) == ReadResult(s, f, r.data, r.err)

ReadAtFlushed(s, n, off, f) ==
    IF f.err # "nil" THEN ReadResult(s, f, <<>>, f.err)
    ELSE ReadAtBytes(s, f, FileReadAt(f.file, s.closed, n, off))

\* store.ReadAt(p, off) with len(p) = n, under the lock
storeReadAt(s, file, n, off, io) ==
    ReadAtFlushed(s, n, off, Flush(Buf(s), file, s.closed, io))

CloseFlushed(s, f) ==
    IF f.err # "nil"
    THEN [s |-> WithBuf(s, f.b), file |-> f.file, err |-> f.err, wrote |-> f.wrote]
    ELSE [s |-> [WithBuf(s, f.b) EXCEPT !.closed = TRUE], file |-> f.file,
          err |-> IF s.closed THEN "ErrClosed" ELSE "nil", wrote |-> f.wrote]

\* store.Close() under the lock: the file is closed only when the flush succeeds
storeClose(s, file, io) == CloseFlushed(s, Flush(Buf(s), file, s.closed, io))

----------------------------------------------------------------------------
(* index: x is [mem, size, cap, closed]; mem is the backing region *)

\* nearestMultiple(j, k): j is unsigned, so the first branch is always taken
nearestMultiple(j, k) ==
    IF j >= 0 THEN (j \div k) * k ELSE ((j - k + 1) \div k) * k

\* uint32(x) of a natural below 2^31: the value itself
Uint32(x) == x

\* int64(off - base) on uint64 operands: the subtraction wraps modulo 2^64 and
\* the conversion reads the result as two's complement, which gives back the
\* signed difference whenever it lies within 63 bits
Int64OfDiff(off, base) == off - base

IndexOf(file, cap) ==
    [mem |-> IF Len(file) < cap THEN file \o Zeros(cap - Len(file))
             ELSE Take(file, cap),
     size |-> Len(file), cap |-> cap, closed |-> FALSE]

\* newIndex(f, c): size from the file, the file grown to the rounded-down maximum
newIndex(file, c) == IndexOf(file, nearestMultiple(c.MaxIndexBytes, entWidth))

Entry(x, at) ==
    [off |-> Uint(SubSeq(x.mem, at + 1, at + offWidth)),
     pos |-> Uint(SubSeq(x.mem, at + offWidth + 1, at + entWidth)),
     err |-> "nil"]

NoEntry == [off |-> 0, pos |-> 0, err |-> "ErrNotFound"]

EntryAt(x, out) ==
    IF out < 0 \/ x.size < out * entWidth + entWidth THEN NoEntry
    ELSE Entry(x, out * entWidth)

\* index.Read(in): -1 is the last entry, otherwise the entry at that index
indexRead(x, in) ==
    IF x.size = 0 THEN NoEntry
    ELSE EntryAt(x, IF in = -1 THEN (x.size \div entWidth) - 1 ELSE in)

\* index.Write(off, pos): a new entry at the current end, within the region
indexWrite(x, off, pos) ==
    IF x.cap < x.size + entWidth THEN [x |-> x, err |-> "ErrCapacity"]
    ELSE [x |-> [x EXCEPT !.mem = Take(x.mem, x.size) \o PutUint(off, offWidth)
                                  \o PutUint(pos, posWidth)
                                  \o Drop(x.mem, x.size + entWidth),
                          !.size = x.size + entWidth],
          err |-> "nil"]

\* index.Close(): the region is persisted and the file truncated to size
indexClose(x, file, io) ==
    IF x.closed THEN [x |-> x, file |-> file, err |-> "ErrClosed"]
    ELSE IF io = "ixfail" THEN [x |-> x, file |-> file, err |-> "EIO"]
    ELSE [x |-> [x EXCEPT !.closed = TRUE], file |-> Take(x.mem, x.size),
          err |-> "nil"]

----------------------------------------------------------------------------
(* api.Record{Value bytes = 1; Offset uint64 = 2} in the protobuf wire format *)

RECURSIVE Varint(_)
Varint(n) == IF n < 128 THEN <<n>> ELSE <<128 + (n % 128)>> \o Varint(n \div 128)

\* proto.Marshal: fields with the zero value are not written
Marshal(rec) ==
    (IF Len(rec.Value) = 0 THEN <<>>
     ELSE <<10>> \o Varint(Len(rec.Value)) \o rec.Value)
    \o (IF rec.Offset = 0 THEN <<>> ELSE <<16>> \o Varint(rec.Offset))

\* the varint at the head of bs: [v, n] with n the bytes it takes, 0 if malformed
RECURSIVE ReadVarint(_, _, _, _)
ReadVarint(bs, i, mult, acc) ==
    IF i > Len(bs) \/ i > 4 THEN [v |-> 0, n |-> 0]
    ELSE IF bs[i] < 128 THEN [v |-> acc + bs[i] * mult, n |-> i]
    ELSE ReadVarint(bs, i + 1, mult * 128, acc + (bs[i] - 128) * mult)

NoRecord == [Value |-> <<>>, Offset |-> 0]

\* proto.Unmarshal: the fields of bs merged into rec
RECURSIVE Parse(_, _)
ParseField(tag, rec, v, rest) ==
    IF v.n = 0 \/ tag \notin {10, 16} THEN [rec |-> rec, err |-> "ErrMalformed"]
    ELSE IF tag = 16 THEN Parse(rest, [rec EXCEPT !.Offset = v.v])
    ELSE IF Len(rest) < v.v THEN [rec |-> rec, err |-> "ErrMalformed"]
    ELSE Parse(Drop(rest, v.v), [rec EXCEPT !.Value = Take(rest, v.v)])

ParseTagged(tag, rec, body, v) == ParseField(tag, rec, v, Drop(body, v.n))

Parse(bs, rec) ==
    IF bs = <<>> THEN [rec |-> rec, err |-> "nil"]
    ELSE ParseTagged(Head(bs), rec, Tail(bs), ReadVarint(Tail(bs), 1, 1, 0))

Unmarshal(bs) == Parse(bs, NoRecord)

----------------------------------------------------------------------------
(* segment: g is [baseOffset, nextOffset, config] over a store s and an index x *)

\* newSegment resuming at the last entry's offset instead of the one after it
Recovered_OffByOne(s, x, baseOffset, c, last) ==
    [s |-> s, x |-> x,
     g |-> [baseOffset |-> baseOffset,
            nextOffset |-> IF last.err # "nil" THEN baseOffset
                           ELSE baseOffset + last.off,
            config |-> c]]

\* newSegment: nextOffset from the index's last entry, last
Recovered(s, x, baseOffset, c, last) ==
    [s |-> s, x |-> x,
     g |-> [baseOffset |-> baseOffset,
            nextOffset |-> IF last.err # "nil" THEN baseOffset
                           ELSE baseOffset + last.off + 1,
            config |-> c]]

Opened(s, x, baseOffset, c) == Recovered(s, x, baseOffset, c, indexRead(x, -1))

\* newSegment(dir, baseOffset, c): both files opened or created
newSegment(sfile, ifile, baseOffset, c) ==
    Opened(newStore(sfile), newIndex(ifile, c), baseOffset, c)

\* segment.Append that never increments nextOffset
AppendIndexed_NoIncrement(g, record, a, w) ==
    [g |-> g, s |-> a.s, x |-> w.x, file |-> a.file,
     offset |-> IF w.err # "nil" THEN 0 ELSE record.Offset,
     err |-> w.err, record |-> record, storeErr |-> a.err, wrote |-> a.wrote,
     took |-> a.took]

\* segment.Append that increments nextOffset whether or not index.Write failed
AppendIndexed_AlwaysIncrement(g, record, a, w) ==
    [g |-> [g EXCEPT !.nextOffset = g.nextOffset + 1],
     s |-> a.s, x |-> w.x, file |-> a.file,
     offset |-> IF w.err # "nil" THEN 0 ELSE record.Offset,
     err |-> w.err, record |-> record, storeErr |-> a.err, wrote |-> a.wrote,
     took |-> a.took]
\* segment.Append after index.Write returned w: nextOffset moves on success
AppendIndexed(g, record, a, w) ==
    [g |-> IF w.err # "nil" THEN g ELSE [g EXCEPT !.nextOffset = g.nextOffset + 1],
     s |-> a.s, x |-> w.x, file |-> a.file,
     offset |-> IF w.err # "nil" THEN 0 ELSE record.Offset,
     err |-> w.err, record |-> record, storeErr |-> a.err, wrote |-> a.wrote,
     took |-> a.took]

\* segment.Append after store.Append returned a: a's error is overwritten by
\* the index write's, and a.pos is written whatever a's error was
AppendStored(g, x, record, a) ==
    AppendIndexed(g, record, a,
                  indexWrite(x, Uint32(g.nextOffset - g.baseOffset), a.pos))

AppendRecord(g, s, x, sfile, record, io) ==
    AppendStored(g, x, record, storeAppend(s, sfile, Marshal(record), io))

\* segment.Append that refuses a record once the segment is maxed
segmentAppend_RejectMaxed(g, s, x, sfile, value, io) ==
    IF s.size >= g.config.MaxStoreBytes \/ x.size >= g.config.MaxIndexBytes
    THEN [g |-> g, s |-> s, x |-> x, file |-> sfile, offset |-> 0,
          err |-> "ErrMaxed", record |-> [Value |-> value, Offset |-> g.nextOffset],
          storeErr |-> "nil", wrote |-> FALSE, took |-> 0]
    ELSE AppendRecord(g, s, x, sfile, [Value |-> value, Offset |-> g.nextOffset], io)
\* segment.Append(record)
segmentAppend(g, s, x, sfile, value, io) ==
    AppendRecord(g, s, x, sfile, [Value |-> value, Offset |-> g.nextOffset], io)

SegReadResult(r, rec, found, err) ==
    [s |-> r.s, file |-> r.file, record |-> rec, found |-> found, err |-> err,
     wrote |-> r.wrote]

ReadParsed(r, u) == SegReadResult(r, u.rec, TRUE, u.err)

\* segment.Read after store.Read returned r
ReadStored(r) ==
    IF r.err # "nil" THEN SegReadResult(r, NoRecord, FALSE, r.err)
    ELSE ReadParsed(r, Unmarshal(r.data))

\* segment.Read after index.Read returned e
ReadIndexed(s, sfile, io, e) ==
    IF e.err # "nil"
    THEN [s |-> s, file |-> sfile, record |-> NoRecord, found |-> FALSE,
          err |-> e.err, wrote |-> FALSE]
    ELSE ReadStored(storeRead(s, sfile, e.pos, io))

\* segment.Read(off)
segmentRead(g, s, x, sfile, off, io) ==
    ReadIndexed(s, sfile, io, indexRead(x, Int64OfDiff(off, g.baseOffset)))

\* IsMaxed's first operand: s.store.size >= s.config.Segment.MaxStoreBytes
StoreMaxed(g, s) == s.size >= g.config.MaxStoreBytes

\* IsMaxed's second operand: s.index.size >= s.config.Segment.MaxIndexBytes
IndexMaxed(g, x) == x.size >= g.config.MaxIndexBytes

\* IsMaxed comparing with > where the code compares with >=
IsMaxed_Strict(g, s, x) ==
    s.size > g.config.MaxStoreBytes \/ x.size > g.config.MaxIndexBytes

\* segment.IsMaxed()
IsMaxed(g, s, x) == StoreMaxed(g, s) \/ IndexMaxed(g, x)

CloseResult(s, x, sfile, ifile, err, wrote) ==
    [s |-> s, x |-> x, sfile |-> sfile, ifile |-> ifile, err |-> err,
     wrote |-> wrote]

CloseStore(ic, sc) == CloseResult(sc.s, ic.x, sc.file, ic.file, sc.err, sc.wrote)

\* segment.Close after index.Close returned ic: the store is closed only then
CloseIndexed(s, sfile, io, ic) ==
    IF ic.err # "nil" THEN CloseResult(s, ic.x, sfile, ic.file, ic.err, FALSE)
    ELSE CloseStore(ic, storeClose(s, sfile, io))

\* segment.Close(): the index, then the store; the first error is returned
segmentClose(s, x, sfile, ifile, io) ==
    CloseIndexed(s, sfile, io, indexClose(x, ifile, io))

RemoveResult(c, sx, ixx, err) ==
    [s |-> c.s, x |-> c.x, sfile |-> c.sfile, ifile |-> c.ifile,
     wrote |-> c.wrote, sx |-> sx, ixx |-> ixx, err |-> err, closeErr |-> c.err]

\* segment.Remove that deletes the files whatever Close returned
RemoveClosed_IgnoreClose(sx, ixx, io, c) ==
    IF ~ixx THEN RemoveResult(c, sx, ixx, "ErrNotExist")
    ELSE IF io = "rmidx" THEN RemoveResult(c, sx, ixx, "EIO")
    ELSE IF ~sx THEN RemoveResult(c, sx, FALSE, "ErrNotExist")
    ELSE IF io = "rmstore" THEN RemoveResult(c, sx, FALSE, "EIO")
    ELSE RemoveResult(c, FALSE, FALSE, "nil")
\* segment.Remove after Close returned c: os.Remove of the index file, then of
\* the store file.  sx and ixx tell which of the files exist.
RemoveClosed(sx, ixx, io, c) ==
    IF c.err # "nil" THEN RemoveResult(c, sx, ixx, c.err)
    ELSE IF ~ixx THEN RemoveResult(c, sx, ixx, "ErrNotExist")
    ELSE IF io = "rmidx" THEN RemoveResult(c, sx, ixx, "EIO")
    ELSE IF ~sx THEN RemoveResult(c, sx, FALSE, "ErrNotExist")
    ELSE IF io = "rmstore" THEN RemoveResult(c, sx, FALSE, "EIO")
    ELSE RemoveResult(c, FALSE, FALSE, "nil")

\* segment.Remove()
segmentRemove(s, x, sfile, ifile, sx, ixx, io) ==
    RemoveClosed(sx, ixx, io, segmentClose(s, x, sfile, ifile, io))

----------------------------------------------------------------------------
(* What the model records about a behaviour *)

NoRet == [op |-> "none", arg |-> <<>>, err |-> "nil", val |-> <<>>, n |-> 0,
          pos |-> 0, aux |-> <<>>]
Ret(op, arg, err, val, n, pos, aux) ==
    [op |-> op, arg |-> arg, err |-> err, val |-> val, n |-> n, pos |-> pos,
     aux |-> aux]

Env0 == [faults |-> 0, ops |-> 0, afterClose |-> FALSE, removed |-> FALSE,
         reopens |-> 0]

\* what the disk does during one operation: at most one fault
WriteFaults == {"ok", "wfail", "wshort"}
CloseFaults == WriteFaults \cup {"ixfail"}
RemoveFaults == CloseFaults \cup {"rmidx", "rmstore"}

\* the fault io is injected only where a write reaches the open file
FaultOk(io, res, closed) ==
    /\ io \in WriteFaults \ {"ok"} => res.wrote /\ ~closed
    /\ io # "ok" => env.faults < MaxFaults
Count(io, usedClosed) ==
    [env EXCEPT !.ops = @ + 1,
                !.faults = IF io = "ok" THEN @ ELSE @ + 1,
                !.afterClose = @ \/ usedClosed]


----------------------------------------------------------------------------
(* The store on its own: one caller at a time *)

Big == [i \in 1..BigLen |-> 7]
StorePayloads == {<<>>, <<5>>, <<1, 2>>, Big}

NoIndex == [mem |-> <<>>, size |-> 0, cap |-> 0, closed |-> TRUE]
NoSegment == [baseOffset |-> 0, nextOffset |-> 0,
              config |-> [MaxStoreBytes |-> 0, MaxIndexBytes |-> 0]]

StoreInit ==
    /\ storeFile = <<>> /\ storeExists = TRUE
    /\ indexFile = <<>> /\ indexExists = FALSE
    /\ st = newStore(<<>>)
    /\ ix = NoIndex /\ seg = NoSegment
    /\ ret = NoRet /\ hist = <<>> /\ handed = 0 /\ env = Env0
    /\ mu = 0 /\ th = <<>>

StoreFrame == UNCHANGED <<storeExists, indexFile, indexExists, ix, seg, mu, th>>

StAppend(p, io) ==
    \E r \in {storeAppend(st, storeFile, p, io)} :
        /\ FaultOk(io, r, st.closed)
        /\ st' = r.s /\ storeFile' = r.file
        /\ ret' = Ret("Append", <<Len(p)>>, r.err, <<>>, r.n, r.pos, <<>>)
        /\ hist' = IF r.err = "nil"
                   THEN Append(hist, [pos |-> r.pos, n |-> r.n, p |-> p])
                   ELSE hist
        /\ handed' = handed + r.took
        /\ env' = Count(io, st.closed)
        /\ StoreFrame

StRead(pos, io) ==
    \E r \in {storeRead(st, storeFile, pos, io)} :
        /\ FaultOk(io, r, st.closed)
        /\ st' = r.s /\ storeFile' = r.file
        /\ ret' = Ret("Read", <<pos>>, r.err, r.data, 0, pos, <<Len(st.buf)>>)
        /\ env' = Count(io, st.closed)
        /\ UNCHANGED <<hist, handed>>
        /\ StoreFrame

\* the (len(p), off) pairs ReadAt is called with: the whole store, its last
\* byte, a window across the first entry's end, and one byte at the end
ReadAtArgs == {<<st.size, 0>>, <<1, st.size - 1>>, <<9, 4>>, <<1, st.size>>}

StReadAt(n, off, io) ==
    \E r \in {storeReadAt(st, storeFile, n, off, io)} :
        /\ FaultOk(io, r, st.closed)
        /\ st' = r.s /\ storeFile' = r.file
        /\ ret' = Ret("ReadAt", <<n, off>>, r.err, r.data, Len(r.data), off,
                      <<Len(st.buf)>>)
        /\ env' = Count(io, st.closed)
        /\ UNCHANGED <<hist, handed>>
        /\ StoreFrame

StClose(io) ==
    \E r \in {storeClose(st, storeFile, io)} :
        /\ FaultOk(io, r, st.closed)
        /\ st' = r.s /\ storeFile' = r.file
        /\ ret' = Ret("Close", <<>>, r.err, <<>>, 0, 0, <<>>)
        /\ env' = Count(io, st.closed)
        /\ UNCHANGED <<hist, handed>>
        /\ StoreFrame

\* newStore on the file of a store that was closed: a new instance
StReopen ==
    /\ st.closed
    /\ st' = newStore(storeFile)
    /\ ret' = Ret("newStore", <<>>, "nil", <<>>, 0, 0, <<>>)
    /\ handed' = Len(storeFile)
    /\ hist' = IF env.afterClose \/ env.faults > 0 THEN <<>> ELSE hist
    /\ env' = [env EXCEPT !.ops = @ + 1]
    /\ UNCHANGED storeFile
    /\ StoreFrame

StoreMore == env.ops < MaxStoreOps

StoreNext ==
    \/ \E p \in StorePayloads, io \in WriteFaults : StoreMore /\ StAppend(p, io)
    \/ \E pos \in {hist[i].pos : i \in 1..Len(hist)} \cup {st.size},
          io \in WriteFaults : StoreMore /\ StRead(pos, io)
    \/ \E a \in ReadAtArgs, io \in WriteFaults :
          StoreMore /\ StReadAt(a[1], a[2], io)
    \/ \E io \in WriteFaults : StoreMore /\ StClose(io)
    \/ StoreMore /\ StReopen

StoreSpec == StoreInit /\ [][StoreNext]_vars

----------------------------------------------------------------------------
(* The segment: one caller at a time *)

Values == {<<>>, <<1>>, <<2, 3>>}
BaseOffsets == {0, MaxBase}
Configs == {[MaxStoreBytes |-> 24, MaxIndexBytes |-> 36],
            [MaxStoreBytes |-> 1024, MaxIndexBytes |-> 30]}

\* a segment just made by newSegment in an empty directory
Fresh(base, c) ==
    \E n \in {newSegment(<<>>, <<>>, base, c)} :
        /\ storeFile = <<>> /\ storeExists = TRUE
        /\ indexFile = n.x.mem /\ indexExists = TRUE
        /\ st = n.s /\ ix = n.x /\ seg = n.g
        /\ ret = NoRet /\ hist = <<>> /\ handed = 0 /\ env = Env0
        /\ mu = 0 /\ th = <<>>

Init == \E base \in BaseOffsets, c \in Configs : Fresh(base, c)

HandleClosed == ix.closed \/ st.closed

SegAppend(value, io) ==
    \E r \in {segmentAppend(seg, st, ix, storeFile, value, io)} :
        /\ FaultOk(io, r, st.closed)
        /\ seg' = r.g /\ st' = r.s /\ ix' = r.x /\ storeFile' = r.file
        /\ ret' = Ret("Append", value, r.err, r.record, 0, r.offset,
                      [storeErr |-> r.storeErr, nextOffset |-> seg.nextOffset,
                       ixSize |-> ix.size, closed |-> HandleClosed])
        /\ hist' = IF r.err = "nil"
                   THEN Append(hist, [off |-> r.offset, value |-> value,
                                      record |-> r.record])
                   ELSE hist
        /\ handed' = handed + r.took
        /\ env' = Count(io, HandleClosed)
        /\ UNCHANGED <<storeExists, indexFile, indexExists, mu, th>>

SegRead(off, io) ==
    \E r \in {segmentRead(seg, st, ix, storeFile, off, io)} :
        /\ FaultOk(io, r, st.closed)
        /\ st' = r.s /\ storeFile' = r.file
        /\ ret' = Ret("Read", off, r.err, r.record, 0, 0,
                      [found |-> r.found, buffered |-> Len(st.buf),
                       closed |-> HandleClosed])
        /\ env' = Count(io, HandleClosed)
        /\ UNCHANGED <<storeExists, indexFile, indexExists, ix, seg, hist, handed,
                       mu, th>>

SegIsMaxed ==
    /\ ret' = Ret("IsMaxed", <<>>, "nil", IsMaxed(seg, st, ix), 0, 0,
                  [closed |-> HandleClosed])
    /\ UNCHANGED <<storeFile, storeExists, indexFile, indexExists, st, ix, seg,
                   hist, handed, env, mu, th>>

SegClose(io) ==
    \E r \in {segmentClose(st, ix, storeFile, indexFile, io)} :
        /\ FaultOk(io, r, st.closed)
        /\ io = "ixfail" => ~ix.closed
        /\ st' = r.s /\ ix' = r.x /\ storeFile' = r.sfile /\ indexFile' = r.ifile
        /\ ret' = Ret("Close", <<>>, r.err, <<>>, 0, 0, [closed |-> HandleClosed])
        /\ env' = Count(io, HandleClosed)
        /\ UNCHANGED <<storeExists, indexExists, seg, hist, handed, mu, th>>

SegRemove(io) ==
    \E r \in {segmentRemove(st, ix, storeFile, indexFile, storeExists,
                             indexExists, io)} :
        /\ FaultOk(io, r, st.closed)
        /\ io = "ixfail" => ~ix.closed
        /\ io \in {"rmidx", "rmstore"} => r.closeErr = "nil" /\ indexExists
        /\ io = "rmstore" => storeExists
        /\ st' = r.s /\ ix' = r.x /\ storeFile' = r.sfile /\ indexFile' = r.ifile
        /\ storeExists' = r.sx /\ indexExists' = r.ixx
        /\ ret' = Ret("Remove", <<>>, r.err, <<>>, 0, 0, [closed |-> HandleClosed])
        /\ env' = [Count(io, HandleClosed) EXCEPT
                       !.removed = @ \/ r.err = "nil"]
        /\ UNCHANGED <<seg, hist, handed, mu, th>>

\* newSegment on the same directory and base offset, once the handle is closed
SegReopen ==
    \E n \in {newSegment(IF storeExists THEN storeFile ELSE <<>>,
                          IF indexExists THEN indexFile ELSE <<>>,
                          seg.baseOffset, seg.config)} :
        /\ ix.closed /\ st.closed
        /\ storeFile' = (IF storeExists THEN storeFile ELSE <<>>)
        /\ storeExists' = TRUE
        /\ indexFile' = n.x.mem /\ indexExists' = TRUE
        /\ st' = n.s /\ ix' = n.x /\ seg' = n.g
        /\ ret' = Ret("newSegment", <<>>, "nil", <<>>, 0, 0, <<>>)
        /\ hist' = IF storeExists /\ indexExists THEN hist ELSE <<>>
        /\ env' = [env EXCEPT !.ops = @ + 1, !.removed = FALSE,
                              !.reopens = @ + 1]
        /\ handed' = Len(IF storeExists THEN storeFile ELSE <<>>)
        /\ UNCHANGED <<mu, th>>

\* the offsets a caller reads: around the segment's range, below and above
ReadOffsets ==
    {o \in (seg.baseOffset - 2)..(seg.nextOffset + 1) : o >= 0}

More == env.ops < MaxOps

Next ==
    \/ \E v \in Values, io \in WriteFaults : More /\ SegAppend(v, io)
    \/ \E off \in ReadOffsets, io \in WriteFaults : More /\ SegRead(off, io)
    \/ More /\ SegIsMaxed
    \/ \E io \in CloseFaults : More /\ SegClose(io)
    \/ \E io \in RemoveFaults : More /\ SegRemove(io)
    \/ More /\ SegReopen

Spec == Init /\ [][Next]_vars

----------------------------------------------------------------------------
(* Rotation: a segment of 1024 store bytes and 120 index bytes that is only *)
(* appended to, with small and with large records                           *)

\* append calls per behaviour of the rotation specification
MaxAppends == 11
\* length of the large record's value
LargeLen == 200

RotConfig == [MaxStoreBytes |-> 1024, MaxIndexBytes |-> 120]
RotValues == {<<>>, [i \in 1..LargeLen |-> 9]}

RotInit == Fresh(0, RotConfig)

RotNext ==
    \/ \E v \in RotValues : env.ops < MaxAppends /\ SegAppend(v, "ok")
    \/ SegIsMaxed

RotSpec == RotInit /\ [][RotNext]_vars

----------------------------------------------------------------------------
(* The store under concurrent callers: every method locks s.mu, runs its    *)
(* statements one at a time and unlocks on return (defer s.mu.Unlock())     *)

\* concurrent callers of one store
NThreads == 2
\* calls made per behaviour of the concurrent specification
MaxCalls == 3

Threads == 1..NThreads
ConcPayloads == {<<5>>, <<1, 2>>}

Idle == [pc |-> "idle", op |-> "none", p |-> <<>>, pos |-> 0, n |-> 0,
         data |-> <<>>, err |-> "nil"]

\* s.mu.Lock() returns only while no caller holds the mutex
CanLock_Always(m) == TRUE
CanLock(m) == m = 0

\* the statements that run between Lock and Unlock
InSection(t) == th[t].pc \notin {"idle", "lock"}

ConcInit ==
    /\ storeFile = <<>> /\ storeExists = TRUE
    /\ indexFile = <<>> /\ indexExists = FALSE
    /\ st = newStore(<<>>)
    /\ ix = NoIndex /\ seg = NoSegment
    /\ ret = NoRet /\ hist = <<>> /\ handed = 0 /\ env = Env0
    /\ mu = 0 /\ th = [t \in Threads |-> Idle]

ConcFrame == UNCHANGED <<storeExists, indexFile, indexExists, ix, seg, handed>>

Goto(t, pc) == th' = [th EXCEPT ![t].pc = pc]
Fail(t, err) == th' = [th EXCEPT ![t].pc = "unlock", ![t].err = err]

\* a caller enters Append(p), Read(pos), ReadAt(p, off) or Close()
Call(t, op, p, pos, n) ==
    /\ th[t].pc = "idle" /\ env.ops < MaxCalls
    /\ th' = [th EXCEPT ![t] = [Idle EXCEPT !.pc = "lock", !.op = op, !.p = p,
                                            !.pos = pos, !.n = n]]
    /\ env' = [env EXCEPT !.ops = @ + 1, !.afterClose = @ \/ st.closed]
    /\ UNCHANGED <<storeFile, st, ret, hist, mu>>
    /\ ConcFrame

\* s.mu.Lock()
Lock(t) ==
    /\ th[t].pc = "lock" /\ CanLock(mu)
    /\ mu' = t
    /\ Goto(t, CASE th[t].op = "Append" -> "a_pos"
                 [] th[t].op = "Read" -> "r_flush"
                 [] th[t].op = "ReadAt" -> "ra_flush"
                 [] OTHER -> "c_flush")
    /\ UNCHANGED <<storeFile, st, ret, hist, env>>
    /\ ConcFrame

\* Append: pos = s.size
AppendPos(t) ==
    /\ th[t].pc = "a_pos"
    /\ th' = [th EXCEPT ![t].pc = "a_len", ![t].pos = st.size]
    /\ UNCHANGED <<storeFile, st, ret, hist, env, mu>>
    /\ ConcFrame

\* Append: binary.Write(s.buf, enc, uint64(len(p)))
AppendLen(t) ==
    /\ th[t].pc = "a_len"
    /\ \E w \in {Write(Buf(st), storeFile, st.closed,
                       PutUint(Len(th[t].p), lenWidth), "ok")} :
           /\ st' = WithBuf(st, w.b) /\ storeFile' = w.file
           /\ IF w.err # "nil"
              THEN th' = [th EXCEPT ![t].pc = "unlock", ![t].err = w.err,
                                    ![t].pos = 0]
              ELSE Goto(t, "a_write")
    /\ UNCHANGED <<ret, hist, env, mu>>
    /\ ConcFrame

\* Append: w, err := s.buf.Write(p); w += lenWidth
AppendWrite(t) ==
    /\ th[t].pc = "a_write"
    /\ \E w \in {Write(Buf(st), storeFile, st.closed, th[t].p, "ok")} :
           /\ st' = WithBuf(st, w.b) /\ storeFile' = w.file
           /\ IF w.err # "nil"
              THEN th' = [th EXCEPT ![t].pc = "unlock", ![t].err = w.err,
                                    ![t].pos = 0]
              ELSE th' = [th EXCEPT ![t].pc = "a_size", ![t].n = w.nn + lenWidth]
    /\ UNCHANGED <<ret, hist, env, mu>>
    /\ ConcFrame

\* Append: s.size += uint64(w)
AppendSize(t) ==
    /\ th[t].pc = "a_size"
    /\ st' = [st EXCEPT !.size = st.size + th[t].n]
    /\ Goto(t, "unlock")
    /\ UNCHANGED <<storeFile, ret, hist, env, mu>>
    /\ ConcFrame

\* Read, ReadAt and Close: s.buf.Flush(); ReadAt returns 0, err when it fails
FlushStep(t) ==
    /\ th[t].pc \in {"r_flush", "ra_flush", "c_flush"}
    /\ \E f \in {Flush(Buf(st), storeFile, st.closed, "ok")} :
           /\ st' = WithBuf(st, f.b) /\ storeFile' = f.file
           /\ IF f.err # "nil"
              THEN th' = [th EXCEPT ![t].pc = "unlock", ![t].err = f.err,
                                    ![t].n = 0]
              ELSE Goto(t, CASE th[t].pc = "r_flush" -> "r_size"
                             [] th[t].pc = "ra_flush" -> "ra_read"
                             [] OTHER -> "c_close")
    /\ UNCHANGED <<ret, hist, env, mu>>
    /\ ConcFrame

\* Read: s.File.ReadAt(size, int64(pos))
ReadSizeStep(t) ==
    /\ th[t].pc = "r_size"
    /\ \E r \in {FileReadAt(storeFile, st.closed, lenWidth, th[t].pos)} :
           IF r.err # "nil" THEN Fail(t, r.err)
           ELSE IF OverMaxAlloc(r.data) THEN Fail(t, "panic: makeslice")
           ELSE th' = [th EXCEPT ![t].pc = "r_body",
                                 ![t].n = BodyLen(r.data, storeFile)]
    /\ UNCHANGED <<storeFile, st, ret, hist, env, mu>>
    /\ ConcFrame

\* Read: s.File.ReadAt(b, int64(pos+lenWidth))
ReadBodyStep(t) ==
    /\ th[t].pc = "r_body"
    /\ \E r \in {FileReadAt(storeFile, st.closed, th[t].n, th[t].pos + lenWidth)} :
           IF r.err # "nil" THEN Fail(t, r.err)
           ELSE th' = [th EXCEPT ![t].pc = "unlock", ![t].data = r.data]
    /\ UNCHANGED <<storeFile, st, ret, hist, env, mu>>
    /\ ConcFrame

\* ReadAt: return s.File.ReadAt(p, off), the count of bytes read and the error
ReadAtStep(t) ==
    /\ th[t].pc = "ra_read"
    /\ \E r \in {FileReadAt(storeFile, st.closed, th[t].n, th[t].pos)} :
           th' = [th EXCEPT ![t].pc = "unlock", ![t].data = r.data,
                            ![t].err = r.err, ![t].n = Len(r.data)]
    /\ UNCHANGED <<storeFile, st, ret, hist, env, mu>>
    /\ ConcFrame

\* Close: s.File.Close()
CloseStep(t) ==
    /\ th[t].pc = "c_close"
    /\ st' = [st EXCEPT !.closed = TRUE]
    /\ th' = [th EXCEPT ![t].pc = "unlock",
                        ![t].err = IF st.closed THEN "ErrClosed" ELSE "nil"]
    /\ UNCHANGED <<storeFile, ret, hist, env, mu>>
    /\ ConcFrame

\* the deferred s.mu.Unlock() and the return to the caller
Unlock(t) ==
    /\ th[t].pc = "unlock"
    /\ mu' = 0
    /\ ret' = Ret(th[t].op, <<t>>, th[t].err, th[t].data, th[t].n, th[t].pos,
                  <<>>)
    /\ hist' = IF th[t].op = "Append" /\ th[t].err = "nil"
               THEN Append(hist, [pos |-> th[t].pos, n |-> th[t].n, p |-> th[t].p])
               ELSE hist
    /\ th' = [th EXCEPT ![t] = Idle]
    /\ UNCHANGED <<storeFile, st, env>>
    /\ ConcFrame

\* the positions a caller reads at: those returned so far, and the end
ConcPositions == {hist[i].pos : i \in 1..Len(hist)} \cup {st.size}

ConcNext ==
    \/ \E t \in Threads, p \in ConcPayloads : Call(t, "Append", p, 0, 0)
    \/ \E t \in Threads, pos \in ConcPositions : Call(t, "Read", <<>>, pos, 0)
    \/ \E t \in Threads : Call(t, "ReadAt", <<>>, 0, st.size)
    \/ \E t \in Threads : Call(t, "Close", <<>>, 0, 0)
    \/ \E t \in Threads : Lock(t)
    \/ \E t \in Threads : AppendPos(t)
    \/ \E t \in Threads : AppendLen(t)
    \/ \E t \in Threads : AppendWrite(t)
    \/ \E t \in Threads : AppendSize(t)
    \/ \E t \in Threads : FlushStep(t)
    \/ \E t \in Threads : ReadSizeStep(t)
    \/ \E t \in Threads : ReadBodyStep(t)
    \/ \E t \in Threads : ReadAtStep(t)
    \/ \E t \in Threads : CloseStep(t)
    \/ \E t \in Threads : Unlock(t)

ConcSpec == ConcInit /\ [][ConcNext]_vars

----------------------------------------------------------------------------
(* The segment under concurrent callers: segment.Append and IsMaxed take no *)
(* lock of their own; only the store's methods run under s.mu.  Append is   *)
(* split at every access to s.nextOffset, s.nextOffset++ being a load and a *)
(* store, and IsMaxed at its two reads.                                     *)

SegConcConfig == [MaxStoreBytes |-> 32, MaxIndexBytes |-> 24]
SegConcValues == {<<2, 3>>}

SegIdle == [pc |-> "idle", op |-> "none", p |-> <<>>, pos |-> 0, n |-> 0,
            data |-> <<>>, err |-> "nil", value |-> <<>>, cursor |-> 0,
            load |-> 0, rel |-> 0,
            seen |-> [holder |-> 0, inAppend |-> FALSE, atSize |-> FALSE]]

\* the statements of store.Append between Lock and Unlock
InStore(t) == th[t].pc \in {"a_pos", "a_len", "a_write", "a_size", "unlock"}

SegConcInit ==
    \E n \in {newSegment(<<>>, <<>>, MaxBase, SegConcConfig)} :
        /\ storeFile = <<>> /\ storeExists = TRUE
        /\ indexFile = n.x.mem /\ indexExists = TRUE
        /\ st = n.s /\ ix = n.x /\ seg = n.g
        /\ ret = NoRet /\ hist = <<>> /\ handed = 0
        /\ env = [ops |-> 0, faults |-> 0, afterClose |-> FALSE, overlap |-> FALSE]
        /\ mu = 0 /\ th = [t \in Threads |-> SegIdle]

\* index.Write's first argument: the offset relative to the base offset
\* that is always 0
RelOffset_Zero(g) == 0
RelOffset(g) == Uint32(g.nextOffset - g.baseOffset)

\* a caller enters segment.Append(record)
SegAppendCall(t, value) ==
    /\ th[t].pc = "idle" /\ env.ops < MaxCalls
    /\ th' = [th EXCEPT ![t] = [SegIdle EXCEPT !.pc = "g_cursor", !.op = "Append",
                                               !.value = value]]
    /\ env' = [env EXCEPT !.ops = @ + 1,
                          !.overlap = @ \/ \E u \in Threads : th[u].op = "Append"]
    /\ UNCHANGED <<storeFile, st, ret, hist, mu>>
    /\ ConcFrame

\* Append: cursor := s.nextOffset; record.Offset = cursor; proto.Marshal(record)
SegAppendCursor(t) ==
    /\ th[t].pc = "g_cursor"
    /\ th' = [th EXCEPT ![t].pc = "lock", ![t].cursor = seg.nextOffset,
                        ![t].p = Marshal([Value |-> th[t].value,
                                          Offset |-> seg.nextOffset])]
    /\ UNCHANGED <<storeFile, st, ret, hist, env, mu>>
    /\ ConcFrame

\* Append: s.store.Append(p) returns, its deferred Unlock having run
SegAppendStored(t) ==
    /\ th[t].pc = "unlock"
    /\ mu' = 0
    /\ Goto(t, "g_rel")
    /\ UNCHANGED <<storeFile, st, ret, hist, env>>
    /\ ConcFrame

\* Append: the argument uint32(s.nextOffset-uint64(s.baseOffset)) of
\* s.index.Write is evaluated, with s.nextOffset read again
SegAppendRel(t) ==
    /\ th[t].pc = "g_rel"
    /\ th' = [th EXCEPT ![t].pc = "g_index", ![t].rel = RelOffset(seg)]
    /\ UNCHANGED <<storeFile, st, ret, hist, env, mu>>
    /\ ConcFrame

\* Append: s.index.Write(rel, pos) is called, and return 0, err when it fails
SegAppendIndex(t) ==
    /\ th[t].pc = "g_index"
    /\ \E w \in {indexWrite(ix, th[t].rel, th[t].pos)} :
           /\ ix' = w.x
           /\ IF w.err # "nil"
              THEN /\ th' = [th EXCEPT ![t] = SegIdle]
                   /\ ret' = Ret("Append", <<t>>, w.err, <<>>, 0, 0, <<>>)
              ELSE /\ Goto(t, "g_load")
                   /\ UNCHANGED ret
    /\ UNCHANGED <<storeFile, storeExists, indexFile, indexExists, st, seg, hist,
                   handed, env, mu>>

\* Append: s.nextOffset++, the load
SegAppendLoad(t) ==
    /\ th[t].pc = "g_load"
    /\ th' = [th EXCEPT ![t].pc = "g_inc", ![t].load = seg.nextOffset]
    /\ UNCHANGED <<storeFile, st, ret, hist, env, mu>>
    /\ ConcFrame

\* Append: s.nextOffset++, the store, and return cursor, nil
SegAppendIncrement(t) ==
    /\ th[t].pc = "g_inc"
    /\ seg' = [seg EXCEPT !.nextOffset = th[t].load + 1]
    /\ ret' = Ret("Append", <<t>>, "nil", <<>>, 0, th[t].cursor, <<>>)
    /\ hist' = Append(hist, [off |-> th[t].cursor, value |-> th[t].value,
                             record |-> Unmarshal(th[t].p).rec,
                             rel |-> th[t].rel, pos |-> th[t].pos, t |-> t])
    /\ th' = [th EXCEPT ![t] = SegIdle]
    /\ UNCHANGED <<storeFile, storeExists, indexFile, indexExists, st, ix, handed,
                   env, mu>>

\* IsMaxed(): s.store.size is read without taking s.mu; true is returned at
\* once when the store is maxed, || not evaluating its second operand
ConcIsMaxed(t) ==
    /\ th[t].pc = "idle" /\ env.ops < MaxCalls
    /\ \E seen \in {[holder |-> mu,
                      inAppend |-> \E u \in Threads : InStore(u),
                      atSize |-> \E u \in Threads : th[u].pc = "a_size"]} :
           IF StoreMaxed(seg, st)
           THEN /\ ret' = Ret("IsMaxed", <<t>>, "nil", TRUE, 0, 0, seen)
                /\ UNCHANGED th
           ELSE /\ th' = [th EXCEPT ![t] = [SegIdle EXCEPT !.pc = "m_index",
                                                           !.op = "IsMaxed",
                                                           !.seen = seen]]
                /\ UNCHANGED ret
    /\ env' = [env EXCEPT !.ops = @ + 1]
    /\ UNCHANGED <<storeFile, st, hist, mu>>
    /\ ConcFrame

\* IsMaxed(): s.index.size is read, and the comparison returned
ConcIsMaxedIndex(t) ==
    /\ th[t].pc = "m_index"
    /\ ret' = Ret("IsMaxed", <<t>>, "nil", IndexMaxed(seg, ix), 0, 0, th[t].seen)
    /\ th' = [th EXCEPT ![t] = SegIdle]
    /\ UNCHANGED <<storeFile, st, hist, env, mu>>
    /\ ConcFrame

SegConcNext ==
    \/ \E t \in Threads, v \in SegConcValues : SegAppendCall(t, v)
    \/ \E t \in Threads : SegAppendCursor(t)
    \/ \E t \in Threads : Lock(t)
    \/ \E t \in Threads : AppendPos(t)
    \/ \E t \in Threads : AppendLen(t)
    \/ \E t \in Threads : AppendWrite(t)
    \/ \E t \in Threads : AppendSize(t)
    \/ \E t \in Threads : SegAppendStored(t)
    \/ \E t \in Threads : SegAppendRel(t)
    \/ \E t \in Threads : SegAppendIndex(t)
    \/ \E t \in Threads : SegAppendLoad(t)
    \/ \E t \in Threads : SegAppendIncrement(t)
    \/ \E t \in Threads : ConcIsMaxed(t)
    \/ \E t \in Threads : ConcIsMaxedIndex(t)

SegConcSpec == SegConcInit /\ [][SegConcNext]_vars

----------------------------------------------------------------------------
(* Properties of the segment, checked under Spec *)

\* no I/O fault was injected and no operation was called on a closed handle
Clean == env.faults = 0 /\ ~env.afterClose
Serving == Clean /\ ~HandleClosed
ReadBack(off) == segmentRead(seg, st, ix, storeFile, off, "ok")
Recorded(off) == \E i \in 1..Len(hist) : hist[i].off = off
ValueAt(off) == hist[CHOOSE i \in 1..Len(hist) : hist[i].off = off].value

\* C1: round trip.  With one caller and no I/O failure, Read of an offset that
\* Append returned yields the payload appended at that offset: the Read that was
\* just served did, and in every state a Read of any recorded offset would,
\* whatever reads came before.
C1_RoundTrip ==
    /\ (ret.op = "Read" /\ Serving /\ Recorded(ret.arg))
           => ret.err = "nil" /\ ret.val.Value = ValueAt(ret.arg)
    /\ Serving =>
           \A i \in 1..Len(hist) :
               /\ ReadBack(hist[i].off).err = "nil"
               /\ ReadBack(hist[i].off).record.Value = hist[i].value

\* a Read of the first of two records returns its payload while the second
\* record was still in the write buffer
C1_Witness ==
    /\ ret.op = "Read" /\ Serving /\ env.reopens = 0
    /\ Len(hist) >= 2 /\ ret.arg = hist[1].off
    /\ ret.err = "nil" /\ ret.val.Value = <<2, 3>> /\ ret.aux.buffered > 0

\* C2: offset monotonicity.  On a segment opened fresh at base offset B the
\* N successful appends returned B, B+1, ..., B+N-1 in call order, the Offset
\* field of each appended record is the offset returned for it, and so is the
\* Offset field of the record as stored.
C2_OffsetMonotonic ==
    env.reopens = 0 =>
        /\ \A i \in 1..Len(hist) :
               /\ hist[i].off = seg.baseOffset + i - 1
               /\ hist[i].record.Offset = hist[i].off
               /\ Serving => ReadBack(hist[i].off).record.Offset = hist[i].off
        /\ (ret.op = "Append" /\ ret.err = "nil")
               => ret.pos = seg.baseOffset + Len(hist) - 1 /\ ret.val.Offset = ret.pos

\* the third append in a row returned B+2
C2_Witness ==
    /\ env.reopens = 0 /\ ret.op = "Append" /\ ret.err = "nil"
    /\ Len(hist) = 3 /\ ret.pos = seg.baseOffset + 2 /\ seg.baseOffset > 0
    /\ Serving

\* C3: resume.  After K successful appends, Close and newSegment on the same
\* directory and base offset, nextOffset is B+K (B when K = 0), the next Append
\* returns B+K, and Read of each earlier offset returns what was appended.
C3_Resume ==
    (env.reopens > 0 /\ Serving) =>
        /\ seg.nextOffset = seg.baseOffset + Len(hist)
        /\ \A v \in Values :
               segmentAppend(seg, st, ix, storeFile, v, "ok").err = "nil"
                   => segmentAppend(seg, st, ix, storeFile, v, "ok").offset
                          = seg.baseOffset + Len(hist)
        /\ (ret.op = "Append" /\ ret.err = "nil")
               => ret.pos = seg.baseOffset + Len(hist) - 1
        /\ \A i \in 1..Len(hist) :
               /\ ReadBack(hist[i].off).err = "nil"
               /\ ReadBack(hist[i].off).record.Value = hist[i].value
        /\ (ret.op = "Read" /\ Recorded(ret.arg))
               => ret.err = "nil" /\ ret.val.Value = ValueAt(ret.arg)

\* a segment with one record was closed and opened again, and the append that
\* followed returned B+1
C3_Witness ==
    /\ env.reopens = 1 /\ Serving /\ storeExists /\ indexExists
    /\ ret.op = "Append" /\ ret.err = "nil" /\ Len(hist) = 2
    /\ ret.pos = seg.baseOffset + 1 /\ ReadBack(hist[1].off).record.Value = <<1>>

\* a segment with no record was closed and opened again: nextOffset is B
C3_WitnessEmpty ==
    /\ env.reopens = 1 /\ Serving /\ ret.op = "newSegment" /\ Len(hist) = 0
    /\ seg.nextOffset = seg.baseOffset /\ storeFile = <<>>

\* C4 as claimed: Read of an offset below B or at or above B+K returns the
\* not-found error and no record.
C4_OutOfRange ==
    (ret.op = "Read" /\ Serving
        /\ (ret.arg < seg.baseOffset \/ ret.arg >= seg.nextOffset))
        => ret.err = "ErrNotFound" /\ ~ret.aux.found

\* C5 as claimed: when the store's Append fails inside the segment's Append,
\* that error is returned, no index entry is written and nextOffset stays.
C5_StoreFailureAborts ==
    (ret.op = "Append" /\ ret.aux.storeErr # "nil")
        => /\ ret.err = ret.aux.storeErr
           /\ ix.size = ret.aux.ixSize
           /\ seg.nextOffset = ret.aux.nextOffset

----------------------------------------------------------------------------
(* Properties of the store, checked under StoreSpec *)

StoreServing == Clean /\ ~st.closed
StoreReadBack(pos) == storeRead(st, storeFile, pos, "ok")

\* the bytes of the entries appended so far, as framed by Append
RECURSIVE Frames(_)
Frames(h) ==
    IF h = <<>> THEN <<>>
    ELSE PutUint(Len(Head(h).p), lenWidth) \o Head(h).p \o Frames(Tail(h))

\* C6: flush before read.  After successful appends, Read of a position an
\* Append returned yields that Append's payload and ReadAt yields the appended
\* bytes, whether or not they had left the write buffer; a served read leaves
\* the buffer empty.
C6_FlushBeforeRead ==
    /\ StoreServing =>
           \A i \in 1..Len(hist) :
               /\ StoreReadBack(hist[i].pos).err = "nil"
               /\ StoreReadBack(hist[i].pos).data = hist[i].p
    /\ (ret.op = "Read" /\ StoreServing /\ ret.pos < st.size)
           => /\ ret.err = "nil" /\ st.buf = <<>>
              /\ \E i \in 1..Len(hist) : hist[i].pos = ret.pos /\ hist[i].p = ret.val
    /\ (ret.op = "ReadAt" /\ StoreServing)
           => /\ st.buf = <<>>
              /\ ret.arg[2] >= 0 =>
                     ret.val = SubSeq(Frames(hist), ret.arg[2] + 1,
                                      Min(Len(Frames(hist)), ret.arg[2] + ret.arg[1]))
              /\ ret.err = "nil" <=>
                     ret.arg[2] >= 0 /\ ret.arg[2] + ret.arg[1] <= Len(Frames(hist))

\* two appends were in the buffer and nothing in the file when a Read of the
\* second returned its payload
C6_Witness ==
    /\ ret.op = "Read" /\ StoreServing /\ ret.err = "nil"
    /\ Len(hist) = 2 /\ ret.pos = hist[2].pos /\ ret.val = <<1, 2>>
    /\ ret.aux[1] = Len(storeFile) /\ ret.aux[1] > lenWidth

\* C7 as claimed: size is the number of bytes handed to the buffer and the
\* file, each successful Append returned n = 8 + len(p), and its pos is where
\* its entry starts, the entries following one another.
C7_SizeIsHanded ==
    /\ st.size = handed
    /\ \A i \in 1..Len(hist) :
           /\ hist[i].n = lenWidth + Len(hist[i].p)
           /\ i > 1 => hist[i].pos = hist[i - 1].pos + hist[i - 1].n

----------------------------------------------------------------------------
(* Properties of removal and of rotation *)

\* C10 as claimed, for a segment that held a record when it was removed (the
\* store file was not empty when it was unlinked): after a successful Remove
\* neither file exists and every later Append, Read, Close or Remove on the
\* segment returns an error.
C10_Removed ==
    (env.removed /\ env.faults = 0 /\ storeFile # <<>>) =>
        /\ ~storeExists /\ ~indexExists
        /\ (ret.op \in {"Append", "Read", "Close", "Remove"} /\ ret.aux.closed)
               => ret.err # "nil"

\* C9: rotation trigger, under RotSpec.  IsMaxed is true once the framed bytes
\* appended reach 1024, and after the 11th append to an index of 120 bytes
\* whatever the store's size; it reports exactly these two conditions.
C9_RotationTrigger ==
    /\ handed >= 1024 => IsMaxed(seg, st, ix)
    /\ env.ops >= 11 => IsMaxed(seg, st, ix)
    /\ IsMaxed(seg, st, ix) <=> (handed >= 1024 \/ Len(hist) >= 10)
    /\ ret.op = "IsMaxed" => ret.val = IsMaxed(seg, st, ix)

\* eleven small records were appended, the store is far below 1024 bytes and
\* IsMaxed returned true
C9_Witness ==
    /\ ret.op = "IsMaxed" /\ ret.val = TRUE
    /\ env.ops = 11 /\ st.size < 512 /\ ix.size = 120

\* a few large records took the store to 1024 bytes with the index not full
C9_WitnessStore ==
    /\ ret.op = "IsMaxed" /\ ret.val = TRUE
    /\ st.size >= 1024 /\ ix.size < 120

----------------------------------------------------------------------------
(* Properties of the store under concurrent callers, checked under ConcSpec *)

\* C8: store mutual exclusion.  At most one caller is between Lock and Unlock
\* of Append, Read, ReadAt or Close, and it is the holder of the mutex; the
\* appends that returned hold byte ranges [pos, pos + 8 + len(p)) that follow
\* one another without overlap; and a reader past its flush sees a file made
\* of whole entries, so that a Read that returns, returns a whole payload.
C8_MutualExclusion ==
    /\ \A t, u \in Threads : InSection(t) /\ InSection(u) => t = u
    /\ \A t \in Threads : InSection(t) => mu = t
    /\ \A i \in 1..Len(hist) :
           /\ hist[i].n = lenWidth + Len(hist[i].p)
           /\ \A j \in 1..Len(hist) :
                  i < j => hist[i].pos + hist[i].n <= hist[j].pos
    /\ \A t \in Threads :
           th[t].pc \in {"r_size", "r_body", "ra_read"}
               => storeFile = Frames(hist) /\ st.buf = <<>>
    /\ \A t \in Threads :
           (th[t].pc = "unlock" /\ th[t].op = "Read" /\ th[t].err = "nil")
               => \E i \in 1..Len(hist) :
                      hist[i].pos = th[t].pos /\ hist[i].p = th[t].data

\* one caller is inside Append, past the length prefix, while the other waits
\* for the mutex to read the entry appended before
C8_Witness ==
    \E t, u \in Threads :
        /\ th[t].pc = "a_write" /\ th[u].pc = "lock" /\ th[u].op = "Read"
        /\ Len(hist) = 1 /\ mu = t

----------------------------------------------------------------------------
(* Properties of the segment under concurrent callers, checked under        *)
(* SegConcSpec                                                              *)

\* the statements of segment.Append outside the store's Append
InSegment(t) == th[t].pc \in {"g_cursor", "g_rel", "g_index", "g_load", "g_inc"}

\* C11: segment append race.  No lock is held over segment.Append's own
\* statements; each Append returns the nextOffset it read at entry, which is
\* the Offset field of its record, and writes to the index the nextOffset it
\* reads again for the index write's argument.  As long as no two calls overlapped these
\* agree and the offsets are B, B+1, ...; the witness is the execution the
\* claim describes, in which they do not.
C11_AppendRace ==
    /\ \A t \in Threads : InSegment(t) => mu # t
    /\ \A i \in 1..Len(hist) :
           /\ hist[i].record.Offset = hist[i].off
           /\ \E k \in 0..(ix.size \div entWidth) :
                  EntryAt(ix, k) = [off |-> hist[i].rel, pos |-> hist[i].pos,
                                    err |-> "nil"]
    /\ ~env.overlap =>
           \A i \in 1..Len(hist) :
               /\ hist[i].off = seg.baseOffset + i - 1
               /\ hist[i].rel = hist[i].off - seg.baseOffset

\* two interleaved Appends by different callers returned the same offset, and
\* the second wrote to the index a relative offset that is not its record's
C11_Witness ==
    /\ Len(hist) = 2 /\ hist[1].t # hist[2].t
    /\ hist[1].off = hist[2].off
    /\ hist[2].rel # hist[2].record.Offset - seg.baseOffset

----------------------------------------------------------------------------
(* Invariants of the segment, checked under Spec *)

\* the entries the index holds
Entries == ix.size \div entWidth

\* C12 as claimed, for a segment that was never used after Close: the store
\* position of each index entry is strictly less than the position of the
\* entry after it, whatever Appends came before.
C12_IndexOrdered ==
    (~HandleClosed /\ ~env.afterClose) =>
        \A k \in 0..(Entries - 2) : Entry(ix, k * entWidth).pos
                                        < Entry(ix, (k + 1) * entWidth).pos

\* C13: nextOffset.  While the segment is open nextOffset >= baseOffset,
\* nextOffset = baseOffset exactly when the index holds no entry, and
\* nextOffset - baseOffset is the number of index entries; an Append that
\* returned an error left nextOffset where it was.
C13_NextOffset ==
    ~HandleClosed =>
        /\ seg.nextOffset >= seg.baseOffset
        /\ seg.nextOffset = seg.baseOffset <=> ix.size = 0
        /\ seg.nextOffset - seg.baseOffset = Entries
        /\ ix.size = Entries * entWidth
        /\ (ret.op = "Append" /\ ret.err # "nil")
               => seg.nextOffset = ret.aux.nextOffset /\ ix.size = ret.aux.ixSize

\* the third Append to an index with room for two entries failed, and
\* nextOffset stayed at B+2
C13_Witness ==
    /\ ~HandleClosed /\ ret.op = "Append" /\ ret.err = "ErrCapacity"
    /\ seg.baseOffset > 0 /\ seg.nextOffset = seg.baseOffset + 2 /\ Entries = 2

----------------------------------------------------------------------------
(* Close and Remove, checked under Spec *)

\* this step closed the index, the store
IndexClosedNow == ~ix.closed /\ ix'.closed
StoreClosedNow == ~st.closed /\ st'.closed

\* a step of Close: the store is touched only once the index is closed, and
\* nil is returned only when both were closed; no file is deleted
CloseOrdered ==
    /\ ~IndexClosedNow => ret'.err # "nil" /\ st' = st /\ storeFile' = storeFile
    /\ StoreClosedNow => IndexClosedNow
    /\ ret'.err = "nil" <=> IndexClosedNow /\ StoreClosedNow
    /\ storeExists' = storeExists /\ indexExists' = indexExists

\* a step of Remove: no file is deleted unless Close succeeded, the store
\* file is deleted only after the index file, and nil is returned only when
\* both were deleted
RemoveOrdered ==
    /\ ~IndexClosedNow => st' = st /\ storeFile' = storeFile
    /\ ~(IndexClosedNow /\ StoreClosedNow)
           => /\ ret'.err # "nil"
              /\ storeExists' = storeExists /\ indexExists' = indexExists
    /\ indexExists' => storeExists' = storeExists
    /\ (storeExists /\ ~storeExists') => (indexExists /\ ~indexExists')
    /\ ret'.err = "nil" <=>
           /\ IndexClosedNow /\ StoreClosedNow
           /\ indexExists /\ ~indexExists' /\ storeExists /\ ~storeExists'

\* C14: close/remove ordering.  Close closes the index, then the store, and
\* returns the first error without attempting the store when the index close
\* failed; Remove deletes only after Close succeeded, the index file before the
\* store file, and returns the first error: when Close fails both files still
\* exist, and when the index deletion fails the store file still exists.
C14_CloseRemoveOrder ==
    [][/\ ret'.op = "Close" => CloseOrdered
       /\ ret'.op = "Remove" => RemoveOrdered]_vars

\* Remove closed a segment holding a record, the deletion of the index file
\* failed, and both files are still there
C14_Witness ==
    /\ ret.op = "Remove" /\ ret.err = "EIO" /\ ~ret.aux.closed
    /\ ix.closed /\ st.closed /\ indexExists /\ storeExists /\ storeFile # <<>>

\* Close failed at the index and left the store open with its buffer unwritten
C14_WitnessClose ==
    /\ ret.op = "Close" /\ ret.err = "EIO" /\ ~ix.closed /\ ~st.closed
    /\ Len(st.buf) > 0 /\ storeFile = <<>>

----------------------------------------------------------------------------
(* Use of a closed store, checked under StoreSpec *)

\* C15 as claimed: once Close has returned nil, every Append, Read, ReadAt
\* (into a buffer that is not empty) and Close on that store returns an error,
\* and size does not advance.
C15_FailFast ==
    [][(/\ st.closed
        /\ ret'.op \in {"Append", "Read", "ReadAt", "Close"}
        /\ ret'.op = "ReadAt" => ret'.arg[1] > 0)
           => ret'.err # "nil" /\ st'.size = st.size]_vars

----------------------------------------------------------------------------
(* IsMaxed and the capacity of the index, checked under Spec *)

\* C16 as claimed: an Append made while IsMaxed() is false never returns the
\* index capacity error, whatever MaxIndexBytes is configured.
C16_MaxedGuardsCapacity ==
    [][(ret'.op = "Append" /\ ~HandleClosed /\ ~IsMaxed(seg, st, ix))
           => ret'.err # "ErrCapacity"]_vars

\* C17 as claimed: an Append that returns an error leaves the store's size,
\* the index and nextOffset as they were before the call.
C17_FailedAppendFrame ==
    [][(ret'.op = "Append" /\ ret'.err # "nil" /\ ~HandleClosed)
           => /\ st'.size = st.size
              /\ ix' = ix
              /\ seg'.nextOffset = seg.nextOffset]_vars

\* C18: IsMaxed is stable.  On an open segment an Append or a Read never
\* lowers the store's size or the index's size, so IsMaxed stays true once it
\* is; and Append does not consult it: whether it returns an error is decided
\* by the room left in the index, maxed or not.
C18_MaxedStable ==
    [][(~HandleClosed /\ ret'.op \in {"Append", "Read"})
           => /\ st'.size >= st.size /\ ix'.size >= ix.size
              /\ IsMaxed(seg, st, ix) => IsMaxed(seg', st', ix')
              /\ ret'.op = "Append"
                     => (ret'.err = "nil" <=> ix.size + entWidth <= ix.cap)]_vars

\* the store had reached MaxStoreBytes before an Append, which was served all
\* the same and left the segment maxed
C18_Witness ==
    /\ ret.op = "Append" /\ ret.err = "nil" /\ ret.aux.storeErr = "nil"
    /\ ~ret.aux.closed /\ env.faults = 0
    /\ st.size - (lenWidth + Len(Marshal(ret.val))) >= seg.config.MaxStoreBytes
    /\ ret.aux.ixSize < seg.config.MaxIndexBytes
    /\ IsMaxed(seg, st, ix)

----------------------------------------------------------------------------
(* Accesses to the store's size, checked under SegConcSpec *)

\* C19 as claimed: store.size is read and written only by the holder of the
\* store's mutex, so IsMaxed never reads it while a caller is between Lock and
\* Unlock of store.Append.
C19_SizeUnderLock ==
    /\ \A t \in Threads : th[t].pc \in {"a_pos", "a_size"} => mu = t
    /\ ret.op = "IsMaxed" => ret.aux.holder = 0 /\ ~ret.aux.inAppend

====
